---- MODULE Spec2Model ----
(***************************************************************************)
(* Model of xiao_asgi/connections.py: the WebSocketConnection state        *)
(* machine (client axis driven by receive_request, application axis        *)
(* driven by send_response) on top of Connection.receive / Connection.send.*)
(*                                                                         *)
(* Wire types are the real strings ("websocket.connect"); split models     *)
(* str.split(".") character by character.  A wire message is modelled by   *)
(* its "type" field, the only field the connection code reads.             *)
(*                                                                         *)
(* receive_request is one action (the whole coroutine, the awaited raw     *)
(* receive included).  send_response iterates a lazy generator, so it is   *)
(* modelled as: the call (the disconnected check), one step per rendered   *)
(* message (the loop body, the awaited raw send included), and the return  *)
(* when the generator is exhausted.  No other call on the connection can   *)
(* run between these steps (single task per connection).                   *)
(*                                                                         *)
(* Spec is the WebSocketConnection.  SpecHttp is the HttpConnection        *)
(* (receive_request, get_requests_body over stream_requests,               *)
(* send_response) together with direct calls of Connection.receive and     *)
(* Connection.send on a connection of either protocol; each specification  *)
(* leaves the other's variables unchanged.                                 *)
(***************************************************************************)
EXTENDS Integers, Sequences, FiniteSets, TLC

VARIABLES
    client_connection_state,       \* WebSocketConnection.client_connection_state
    application_connection_state,  \* WebSocketConnection.application_connection_state
    pc,                            \* "idle" | "rendering" (inside send_response's for loop)
    sent,                          \* messages handed to the raw send primitive, in order
    returned,                      \* sub-types of the Requests receive_request returned, in order
    last,                          \* observation of the most recent call / message
    http_pc,                       \* "idle" | "streaming" (get_requests_body iterating stream_requests)
    http_received,                 \* raw messages the raw receive delivered to the current call, in order
    http_yielded,                  \* Requests yielded by stream_requests in the current call, in order
    http_body,                     \* the local body of get_requests_body
    http_sent,                     \* messages the raw send was awaited with by the current call, in order
    http_last                      \* observation of the most recent call on the http side

\* State of the WebSocketConnection
websocket_vars ==
    <<client_connection_state, application_connection_state, pc, sent, returned, last>>

\* State of the calls on an HttpConnection (the connection itself is stateless)
http_vars == <<http_pc, http_received, http_yielded, http_body, http_sent, http_last>>

vars == <<websocket_vars, http_vars>>

\* Bound on the number of messages handed to the raw send primitive.
MaxSent == 2

\* Bound on the number of Requests returned by WebSocketConnection.receive_request.
MaxReturned == 3

\* Bound on the number of chunks: raw messages read by one get_requests_body
\* call, and body chunks of a streamed response.
MaxChunks == 3

----------------------------------------------------------------------------
\* Wire types

Protocols == {"websocket", "http"}

SubTypes == {"connect", "receive", "disconnect", "accept", "send", "close"}

\* "" gives the two-segment types, ".extra" types with a third segment.
Trailers == {"", ".extra"}

\* The types a raw message or a rendered message may carry: well-formed
\* "<protocol>.<subtype>", a bare protocol name without a dot, and types
\* with a third segment.
WireTypes ==
    Protocols \cup {p \o "." \o s \o e : p \in Protocols, s \in SubTypes, e \in Trailers}

\* The sub-types of the messages an http channel delivers
HttpSubTypes == {"request", "disconnect"}

\* The types of the raw messages offered to an HttpConnection
HttpWireTypes ==
    Protocols \cup {p \o "." \o s \o e : p \in Protocols, s \in HttpSubTypes, e \in Trailers}

\* The types of the messages rendered by the http responses
ResponseTypes == {"http.response.start", "http.response.body"}

RECURSIVE split_from(_, _, _)
split_from(s, start, i) ==
    IF i > Len(s) THEN <<SubSeq(s, start, Len(s))>>
    ELSE IF SubSeq(s, i, i) = "." THEN <<SubSeq(s, start, i - 1)>> \o split_from(s, i + 1, i + 1)
    ELSE split_from(s, start, i + 1)

\* split_from computed once for every wire type of the model
SplitTable ==
    [t \in WireTypes \cup HttpWireTypes \cup ResponseTypes |-> split_from(t, 1, 1)]

\* str.split(".")
split(s) == IF s \in DOMAIN SplitTable THEN SplitTable[s] ELSE split_from(s, 1, 1)

----------------------------------------------------------------------------
\* Connection base

protocol == "websocket"

\* No message / no value returned
NoResult == [none |-> TRUE]

\* Connection.receive on a connection of protocol p, after the raw receive
\* has delivered the message request: the outcome and the message returned.
connection_receive(p, request) ==
    IF split(request.type)[1] # p
    THEN [outcome |-> "ProtocolMismatch", result |-> NoResult]
    ELSE [outcome |-> "ok", result |-> request]

\* connection_send without the protocol check
connection_send_unchecked(p, response) == "ok"

\* Connection.send on a connection of protocol p, up to the raw send: "ok"
\* means the raw send primitive is awaited with the message.
connection_send(p, response) ==
    IF split(response.type)[1] # p THEN "ProtocolMismatch" ELSE "ok"

\* Connection.receive of the WebSocketConnection, for a message of type request_type
receive(request_type) == connection_receive(protocol, [type |-> request_type]).outcome

\* Connection.send of the WebSocketConnection, for a message of type response_type
send(response_type) == connection_send(protocol, [type |-> response_type])

----------------------------------------------------------------------------
\* Observations

NoMsg == ""
NoRequest == [protocol |-> "", type |-> ""]

\* Request(protocol=protocol, type=type, data=request)
Request(p, t) == [protocol |-> p, type |-> t]

Init ==
    /\ client_connection_state = "connecting"
    /\ application_connection_state = "connecting"
    /\ pc = "idle"
    /\ sent = <<>>
    /\ returned = <<>>
    /\ last = [op |-> "init", outcome |-> "ok", msg |-> NoMsg, raw |-> FALSE,
               pre_client |-> "connecting", pre_app |-> "connecting",
               request |-> NoRequest]
    /\ http_pc = "idle"
    /\ http_received = <<>>
    /\ http_yielded = <<>>
    /\ http_body = ""
    /\ http_sent = <<>>
    /\ http_last = [op |-> "init", protocol |-> "http", outcome |-> "ok",
                    msg |-> NoResult, result |-> NoResult]

----------------------------------------------------------------------------
\* WebSocketConnection.receive_request

\* receive_refused with the state name misspelt: the check never fires
receive_refused_misspelt(state) == state = "disconnect"

receive_refused(state) == state = "disconnected"

\* legal_from_connecting_client also letting "disconnect" through
legal_from_connecting_client_skip(type) == type \in {"connect", "disconnect"}

\* legal_from_connecting_client also letting "receive" through
legal_from_connecting_client_lax(type) == type \in {"connect", "receive"}

legal_from_connecting_client(type) == type = "connect"

\* legal_from_connected_client also letting a second "connect" through
legal_from_connected_client_lax(type) == type \in {"receive", "disconnect", "connect"}

legal_from_connected_client(type) == type \in {"receive", "disconnect"}

\* The body of receive_request once the raw receive has delivered a message
\* of wire type request_type: the outcome, the new client state, the Request.
receive_request_result(state, request_type) ==
    LET fail(e) == [outcome |-> e, state |-> state, request |-> NoRequest]
        segs == split(request_type)
    IN  IF receive(request_type) # "ok" THEN fail("ProtocolMismatch")
        ELSE IF Len(segs) # 2 THEN fail("ValueError")
        ELSE LET type == segs[2]
                 ok(s) == [outcome |-> "ok", state |-> s, request |-> Request(segs[1], type)]
             IN  IF state = "connecting"
                 THEN IF ~legal_from_connecting_client(type)
                      THEN fail("InvalidConnectionState")
                      ELSE ok("connected")
                 ELSE IF state = "connected"
                 THEN IF ~legal_from_connected_client(type)
                      THEN fail("InvalidConnectionState")
                      ELSE ok(IF type = "disconnect" THEN "disconnected" ELSE state)
                 ELSE ok(state)

\* receive_request also closing the application axis once the client has
\* disconnected
receive_request_closing_application ==
    /\ pc = "idle"
    /\ LET obs == [op |-> "receive_request", msg |-> NoMsg, raw |-> FALSE,
                   pre_client |-> client_connection_state,
                   pre_app |-> application_connection_state,
                   outcome |-> "ok", request |-> NoRequest]
       IN  IF receive_refused(client_connection_state)
           THEN /\ last' = [obs EXCEPT !.outcome = "InvalidConnectionState"]
                /\ UNCHANGED <<client_connection_state, returned>>
           ELSE \/ \* the raw receive raises or the task is cancelled while awaiting it
                   /\ last' = [obs EXCEPT !.outcome = "ChannelError", !.raw = TRUE]
                   /\ UNCHANGED <<client_connection_state, returned>>
                \/ \E request_type \in WireTypes :
                     LET r == receive_request_result(client_connection_state, request_type)
                     IN  /\ Len(returned) < MaxReturned
                         /\ client_connection_state' = r.state
                         /\ returned' = IF r.outcome = "ok"
                                        THEN Append(returned, r.request.type)
                                        ELSE returned
                         /\ last' = [obs EXCEPT !.outcome = r.outcome, !.raw = TRUE,
                                                !.msg = request_type,
                                                !.request = r.request]
    /\ application_connection_state' =
         IF client_connection_state' = "disconnected"
         THEN "disconnected"
         ELSE application_connection_state
    /\ UNCHANGED <<pc, sent>>
    /\ UNCHANGED http_vars

receive_request ==
    /\ pc = "idle"
    /\ LET obs == [op |-> "receive_request", msg |-> NoMsg, raw |-> FALSE,
                   pre_client |-> client_connection_state,
                   pre_app |-> application_connection_state,
                   outcome |-> "ok", request |-> NoRequest]
       IN  IF receive_refused(client_connection_state)
           THEN /\ last' = [obs EXCEPT !.outcome = "InvalidConnectionState"]
                /\ UNCHANGED <<client_connection_state, returned>>
           ELSE \/ \* the raw receive raises or the task is cancelled while awaiting it
                   /\ last' = [obs EXCEPT !.outcome = "ChannelError", !.raw = TRUE]
                   /\ UNCHANGED <<client_connection_state, returned>>
                \/ \E request_type \in WireTypes :
                     LET r == receive_request_result(client_connection_state, request_type)
                     IN  /\ Len(returned) < MaxReturned
                         /\ client_connection_state' = r.state
                         /\ returned' = IF r.outcome = "ok"
                                        THEN Append(returned, r.request.type)
                                        ELSE returned
                         /\ last' = [obs EXCEPT !.outcome = r.outcome, !.raw = TRUE,
                                                !.msg = request_type,
                                                !.request = r.request]
    /\ UNCHANGED <<application_connection_state, pc, sent>>
    /\ UNCHANGED http_vars

----------------------------------------------------------------------------
\* WebSocketConnection.send_response

\* send_refused with the state name misspelt: the check never fires
send_refused_misspelt(state) == state = "disconnect"

send_refused(state) == state = "disconnected"

\* legal_from_connecting_application also letting "send" through
legal_from_connecting_application_lax(message_type) == message_type \in {"accept", "close", "send"}

legal_from_connecting_application(message_type) == message_type \in {"accept", "close"}

legal_from_connected_application(message_type) == message_type \in {"send", "close"}

\* application_state_after also moving to connected on "accept", whatever
\* the state it is applied in
application_state_after_reopen(state, message_type) ==
    IF message_type = "close" THEN "disconnected"
    ELSE IF message_type = "accept" THEN "connected"
    ELSE state

\* The application state after a message of sub-type message_type has passed
\* the two checks of the loop body (the assignment precedes the send).
application_state_after(state, message_type) ==
    IF message_type = "close" THEN "disconnected" ELSE state

\* One iteration of the loop body for a rendered message of wire type
\* response_type: the outcome, the new application state, and whether the
\* raw send primitive is awaited with the message.
send_message_result(state, response_type) ==
    LET segs == split(response_type)
    IN  IF Len(segs) < 2
        THEN [outcome |-> "IndexError", state |-> state, raw |-> FALSE]
        ELSE LET message_type == segs[2]
             IN  IF state = "connecting" /\ ~legal_from_connecting_application(message_type)
                 THEN [outcome |-> "InvalidConnectionState", state |-> state, raw |-> FALSE]
                 ELSE IF state = "connected" /\ ~legal_from_connected_application(message_type)
                 THEN [outcome |-> "InvalidConnectionState", state |-> state, raw |-> FALSE]
                 ELSE LET after == application_state_after(state, message_type)
                      IN  IF send(response_type) # "ok"
                          THEN [outcome |-> "ProtocolMismatch", state |-> after, raw |-> FALSE]
                          ELSE [outcome |-> "ok", state |-> after, raw |-> TRUE]

\* The call of send_response: the check made before the response is rendered.
send_response ==
    /\ pc = "idle"
    /\ LET obs == [op |-> "send_response", msg |-> NoMsg, raw |-> FALSE,
                   pre_client |-> client_connection_state,
                   pre_app |-> application_connection_state,
                   outcome |-> "running", request |-> NoRequest]
       IN  IF send_refused(application_connection_state)
           THEN /\ last' = [obs EXCEPT !.outcome = "InvalidConnectionState"]
                /\ pc' = "idle"
           ELSE /\ last' = obs
                /\ pc' = "rendering"
    /\ UNCHANGED <<client_connection_state, application_connection_state, sent, returned>>
    /\ UNCHANGED http_vars

\* render_messages() yields one more message and the loop body runs on it.
send_response_message ==
    /\ pc = "rendering"
    /\ Len(sent) < MaxSent
    /\ \E response_type \in WireTypes :
         LET r == send_message_result(application_connection_state, response_type)
             obs == [op |-> "send_response", msg |-> response_type, raw |-> r.raw,
                     pre_client |-> client_connection_state,
                     pre_app |-> application_connection_state,
                     outcome |-> r.outcome, request |-> NoRequest]
         IN  /\ application_connection_state' = r.state
             /\ sent' = IF r.raw THEN Append(sent, response_type) ELSE sent
             /\ IF r.outcome # "ok"
                THEN \* the exception leaves send_response
                     /\ last' = obs
                     /\ pc' = "idle"
                ELSE \/ \* the raw send completes, the loop goes on
                        /\ last' = [obs EXCEPT !.outcome = "running"]
                        /\ pc' = "rendering"
                     \/ \* the raw send raises or the task is cancelled while awaiting it
                        /\ last' = [obs EXCEPT !.outcome = "ChannelError"]
                        /\ pc' = "idle"
    /\ UNCHANGED <<client_connection_state, returned>>
    /\ UNCHANGED http_vars

\* render_messages() is exhausted: send_response returns.
send_response_return ==
    /\ pc = "rendering"
    /\ last' = [last EXCEPT !.outcome = "ok"]
    /\ pc' = "idle"
    /\ UNCHANGED <<client_connection_state, application_connection_state, sent, returned>>
    /\ UNCHANGED http_vars

Next ==
    \/ receive_request
    \/ send_response
    \/ send_response_message
    \/ send_response_return

Spec == Init /\ [][Next]_vars

----------------------------------------------------------------------------
\* Properties of the duplex-session (websocket) connection

\* Well-formed wire types "<p>.<subtype>" of protocol p
WellFormed(p) == {p \o "." \o s : s \in SubTypes}

\* Wire types whose second segment (the sub-type send_response derives) is in S
WithSubType(S) == {p \o "." \o s \o e : p \in Protocols, s \in S, e \in Trailers}

AxesAsBeforeMessage ==
    /\ client_connection_state = last.pre_client
    /\ application_connection_state = last.pre_app

\* C1: on a connection whose application axis is connecting, once
\* send_response has forwarded an "accept" message the application axis is
\* connected, and a later "send" message (the application not having
\* closed) is legal and is forwarded.
C1_AcceptConnectsApplication ==
    /\ (/\ last.op = "send_response"
        /\ last.pre_app = "connecting"
        /\ last.msg = "websocket.accept"
        /\ last.raw)
       => application_connection_state = "connected"
    /\ (/\ last.op = "send_response"
        /\ last.msg = "websocket.send"
        /\ last.pre_app # "disconnected"
        /\ \E i \in DOMAIN sent : sent[i] = "websocket.accept")
       => last.raw

\* C2: once the application axis is disconnected (a "close" message has been
\* validated), no further message is handed to the raw send primitive,
\* neither by the same send_response call nor by a later one.
C2_NoSendAfterClose ==
    [][application_connection_state = "disconnected" => sent' = sent]_vars

\* C3: a message of sub-type "send" is handed to the raw send primitive only
\* if a message of sub-type "accept" was handed to it earlier on the same
\* connection.
C3_SendOnlyAfterAccept ==
    \A i \in DOMAIN sent :
        sent[i] \in WithSubType({"send"})
        => \E j \in 1..(i - 1) : sent[j] \in WithSubType({"accept"})

\* C4: a receive_request attempted while the client axis is disconnected
\* fails with InvalidConnectionState and does not invoke the raw receive
\* primitive (no message is consumed).
C4_ReceiveAfterDisconnectRefused ==
    (last.op = "receive_request" /\ last.pre_client = "disconnected")
    => /\ last.outcome = "InvalidConnectionState"
       /\ ~last.raw
       /\ last.msg = NoMsg
       /\ last.request = NoRequest
       /\ client_connection_state = "disconnected"

C4_Witness ==
    /\ last.op = "receive_request"
    /\ last.pre_client = "disconnected"
    /\ last.outcome = "InvalidConnectionState"

C7_ConnectingApplicationRefusesOthers ==
    (/\ last.op = "send_response"
     /\ last.pre_app = "connecting"
     /\ last.msg \in WithSubType(SubTypes \ {"accept", "close"}))
    => /\ last.outcome = "InvalidConnectionState"
       /\ ~last.raw
       /\ \A i \in DOMAIN sent : sent[i] # last.msg
       /\ application_connection_state = "connecting"
       /\ pc = "idle"

C7_Witness ==
    /\ last.op = "send_response"
    /\ last.pre_app = "connecting"
    /\ last.msg = "websocket.send"
    /\ last.outcome = "InvalidConnectionState"

\* C8: a send_response called while the application axis is already
\* disconnected fails with InvalidConnectionState before the response is
\* rendered (no message of the call is processed, last.msg = NoMsg): nothing
\* is handed to the raw send primitive.
C8_SendAfterDisconnectRefused ==
    (last.op = "send_response" /\ last.msg = NoMsg /\ last.pre_app = "disconnected")
    => /\ last.outcome = "InvalidConnectionState"
       /\ ~last.raw
       /\ pc = "idle"

C8_Witness ==
    /\ last.op = "send_response"
    /\ last.msg = NoMsg
    /\ last.pre_app = "disconnected"
    /\ last.outcome = "InvalidConnectionState"
    /\ pc = "idle"

\* C9: when the raw receive awaited by receive_request, or the raw send
\* awaited by send_response for a message, does not complete, both axes
\* equal their values from before that message was processed.
C9_ChannelFailureKeepsAxes ==
    last.outcome = "ChannelError" => AxesAsBeforeMessage

\* C10: when receive_request or send_response fails with ProtocolMismatch,
\* both axes equal their values from before the mismatching message was
\* processed.
C10_ProtocolMismatchKeepsAxes ==
    last.outcome = "ProtocolMismatch" => AxesAsBeforeMessage

\* The sub-types that are legal for an application axis in state s
LegalSubTypes(s) ==
    IF s = "connecting" THEN {"accept", "close"}
    ELSE IF s = "connected" THEN {"send", "close"}
    ELSE {}

\* C16: a rendered message whose sub-type is illegal for the current
\* application axis makes send_response abort with InvalidConnectionState
\* before the message is handed to the raw send primitive; the call ends
\* there (no later message is forwarded) and the axis keeps the value the
\* earlier messages of the call gave it.
C16_IllegalMessageAborts ==
    (/\ last.op = "send_response"
     /\ last.msg \in WithSubType(SubTypes \ LegalSubTypes(last.pre_app)))
    => /\ last.outcome = "InvalidConnectionState"
       /\ ~last.raw
       /\ pc = "idle"
       /\ application_connection_state = last.pre_app

\* C18: both axes are connecting right after construction; receive_request,
\* successful or failing, never changes application_connection_state and
\* send_response, successful or failing, never changes
\* client_connection_state.
C18_AxesIndependent ==
    /\ last.op = "init"
       => /\ client_connection_state = "connecting"
          /\ application_connection_state = "connecting"
    /\ [][/\ receive_request
             => application_connection_state' = application_connection_state
          /\ (send_response \/ send_response_message \/ send_response_return)
             => client_connection_state' = client_connection_state]_vars

C18_Witness ==
    /\ client_connection_state = "connected"
    /\ application_connection_state = "disconnected"
    /\ last.op = "send_response"
    /\ returned # <<>>

ConnectionStates == {"connecting", "connected", "disconnected"}

\* Position of a state in the order connecting, connected, disconnected
Rank(s) == IF s = "connecting" THEN 0 ELSE IF s = "connected" THEN 1 ELSE 2

\* C19: each axis always holds one of connecting, connected, disconnected
\* and no step moves an axis to an earlier state; in particular an axis that
\* is disconnected stays disconnected.
C19_AxesOnlyMoveForward ==
    /\ client_connection_state \in ConnectionStates
    /\ application_connection_state \in ConnectionStates
    /\ [][/\ client_connection_state' \in ConnectionStates
          /\ application_connection_state' \in ConnectionStates
          /\ Rank(client_connection_state') >= Rank(client_connection_state)
          /\ Rank(application_connection_state') >= Rank(application_connection_state)]_vars

C19_Witness ==
    /\ last.pre_client = "disconnected"
    /\ last.pre_app = "disconnected"
    /\ client_connection_state = "disconnected"
    /\ application_connection_state = "disconnected"
    /\ last.op = "receive_request"

\* C20: the sub-types of the Requests returned by successive receive_request
\* calls form a prefix of: one "connect", any number of "receive", at most
\* one "disconnect".
C20_ReturnedRequestsFollowSession ==
    \A i \in DOMAIN returned :
        /\ returned[i] \in {"connect", "receive", "disconnect"}
        /\ returned[i] = "connect" <=> i = 1
        /\ returned[i] = "disconnect" => i = Len(returned)

C20_Witness ==
    returned = <<"connect", "receive", "disconnect">>

----------------------------------------------------------------------------
\* HttpConnection, and the base Connection.receive / Connection.send on a
\* connection of either protocol.  Byte strings are modelled by strings.
\* A raw message is a record with the keys of the dict; the "more_body" key
\* may be absent.

http_protocol == "http"

Bodies == {"", "a", "b"}

RawMessages ==
    {[type |-> t, body |-> b, more_body |-> m] :
        t \in HttpWireTypes, b \in Bodies, m \in BOOLEAN}
    \cup {[type |-> t, body |-> b] : t \in HttpWireTypes, b \in Bodies}

\* Messages carrying the "type" key only, the one key Connection.receive and
\* Connection.send read
TypeOnlyMessages == {[type |-> t] : t \in WireTypes \cup HttpWireTypes}

\* del request[key]
del(request, key) == [k \in DOMAIN request \ {key} |-> request[k]]

\* Request(protocol=..., type=..., data=...)
http_Request(p, t, data) == [protocol |-> p, type |-> t, data |-> data]

\* HttpConnection.receive_request once the raw receive has delivered request
http_receive_request_result(request) ==
    LET fail(e) == [outcome |-> e, request |-> NoResult]
        segs == split(request.type)
    IN  IF connection_receive(http_protocol, request).outcome # "ok"
        THEN fail("ProtocolMismatch")
        ELSE IF Len(segs) # 2 THEN fail("ValueError")
        ELSE IF segs[2] # "request" THEN fail("TypeMismatch")
        ELSE [outcome |-> "ok",
              request |-> http_Request(segs[1], segs[2], del(request, "type"))]

\* A call of Connection.receive on a connection of either protocol
conn_receive ==
    /\ http_pc = "idle"
    /\ \E p \in Protocols :
         LET obs == [op |-> "receive", protocol |-> p, outcome |-> "ok",
                     msg |-> NoResult, result |-> NoResult]
         IN  \/ \* the raw receive raises or the task is cancelled
                /\ http_last' = [obs EXCEPT !.outcome = "ChannelError"]
                /\ http_received' = <<>>
             \/ \E request \in TypeOnlyMessages :
                  LET r == connection_receive(p, request)
                  IN  /\ http_last' = [obs EXCEPT !.outcome = r.outcome,
                                                  !.msg = request,
                                                  !.result = r.result]
                      /\ http_received' = <<request>>
    /\ http_sent' = <<>>
    /\ http_yielded' = <<>>
    /\ http_body' = ""
    /\ UNCHANGED http_pc
    /\ UNCHANGED websocket_vars

\* A call of Connection.send on a connection of either protocol
conn_send ==
    /\ http_pc = "idle"
    /\ \E p \in Protocols, response \in TypeOnlyMessages :
         LET obs == [op |-> "send", protocol |-> p, outcome |-> "ok",
                     msg |-> response, result |-> NoResult]
         IN  IF connection_send(p, response) # "ok"
             THEN /\ http_last' = [obs EXCEPT !.outcome = "ProtocolMismatch"]
                  /\ http_sent' = <<>>
             ELSE /\ http_sent' = <<response>>
                  /\ \/ http_last' = obs
                     \/ \* the raw send raises or the task is cancelled
                        http_last' = [obs EXCEPT !.outcome = "ChannelError"]
    /\ http_received' = <<>>
    /\ http_yielded' = <<>>
    /\ http_body' = ""
    /\ UNCHANGED http_pc
    /\ UNCHANGED websocket_vars

\* A call of HttpConnection.receive_request
http_receive_request ==
    /\ http_pc = "idle"
    /\ LET obs == [op |-> "receive_request", protocol |-> http_protocol,
                   outcome |-> "ok", msg |-> NoResult, result |-> NoResult]
       IN  \/ /\ http_last' = [obs EXCEPT !.outcome = "ChannelError"]
              /\ http_received' = <<>>
           \/ \E request \in RawMessages :
                LET r == http_receive_request_result(request)
                IN  /\ http_last' = [obs EXCEPT !.outcome = r.outcome,
                                                !.msg = request,
                                                !.result = r.request]
                    /\ http_received' = <<request>>
    /\ http_sent' = <<>>
    /\ http_yielded' = <<>>
    /\ http_body' = ""
    /\ UNCHANGED http_pc
    /\ UNCHANGED websocket_vars

\* The call of get_requests_body: body = b"", stream_requests() is created.
get_requests_body ==
    /\ http_pc = "idle"
    /\ http_pc' = "streaming"
    /\ http_body' = ""
    /\ http_received' = <<>>
    /\ http_yielded' = <<>>
    /\ http_sent' = <<>>
    /\ http_last' = [op |-> "get_requests_body", protocol |-> http_protocol,
                     outcome |-> "running", msg |-> NoResult, result |-> NoResult]
    /\ UNCHANGED websocket_vars

\* stream_requests_after_yield never leaving the loop on more_body
stream_requests_after_yield_no_break(request) ==
    IF "more_body" \notin DOMAIN request.data THEN "KeyError" ELSE "continue"

\* What stream_requests does after the consumer has taken the yielded
\* request: "break" when its more_body is false, "continue" when it is true,
\* KeyError when the key is absent.
stream_requests_after_yield(request) ==
    IF "more_body" \notin DOMAIN request.data THEN "KeyError"
    ELSE IF ~request.data.more_body THEN "break"
    ELSE "continue"

\* body_add putting the new chunk in front
body_add_in_front(body, request) == request.data.body \o body

\* body += request.data["body"]
body_add(body, request) == body \o request.data.body

\* One iteration of stream_requests driven by get_requests_body: the request
\* is received and yielded, the consumer adds its body, the generator is
\* resumed and tests more_body; when it breaks, get_requests_body returns.
stream_requests ==
    /\ http_pc = "streaming"
    /\ Len(http_received) < MaxChunks
    /\ \/ \* the raw receive raises or the task is cancelled
          /\ http_last' = [http_last EXCEPT !.outcome = "ChannelError"]
          /\ http_pc' = "idle"
          /\ UNCHANGED <<http_received, http_yielded, http_body>>
       \/ \E raw \in RawMessages :
            LET r == http_receive_request_result(raw)
            IN  /\ http_received' = Append(http_received, raw)
                /\ IF r.outcome # "ok"
                   THEN /\ http_last' = [http_last EXCEPT !.outcome = r.outcome, !.msg = raw]
                        /\ http_pc' = "idle"
                        /\ UNCHANGED <<http_yielded, http_body>>
                   ELSE LET body == body_add(http_body, r.request)
                            next == stream_requests_after_yield(r.request)
                        IN  /\ http_yielded' = Append(http_yielded, r.request)
                            /\ http_body' = body
                            /\ IF next = "continue"
                               THEN /\ http_last' = [http_last EXCEPT !.msg = raw]
                                    /\ http_pc' = "streaming"
                               ELSE IF next = "break"
                               THEN /\ http_last' =
                                         [http_last EXCEPT
                                            !.outcome = "ok", !.msg = raw,
                                            !.result = http_Request(http_protocol, "request",
                                                          [body |-> body, more_body |-> FALSE])]
                                    /\ http_pc' = "idle"
                               ELSE /\ http_last' = [http_last EXCEPT !.outcome = next, !.msg = raw]
                                    /\ http_pc' = "idle"
    /\ UNCHANGED http_sent
    /\ UNCHANGED websocket_vars

----------------------------------------------------------------------------
\* Responses (xiao_asgi/responses.py) and the dispatcher
\* (xiao_asgi/applications.py), as their tests and the specification
\* describe them, sent through HttpConnection.send_response.

Statuses == {200, 404}

HeaderLists == {<<>>, <<<<"content-type", "text/plain">>>>}

ChunkBodies == {"", "a"}

RECURSIVE SeqsUpTo(_, _)
\* The sequences over S of length at most n
SeqsUpTo(S, n) ==
    IF n = 0 THEN {<<>>}
    ELSE LET shorter == SeqsUpTo(S, n - 1)
         IN  shorter \cup {Append(q, x) : q \in shorter, x \in S}

BodyResponse(status, headers, body) ==
    [kind |-> "BodyResponse", status |-> status, headers |-> headers, body |-> body]

\* The body of a StreamResponse is its sequence of chunks
StreamResponse(status, headers, body) ==
    [kind |-> "StreamResponse", status |-> status, headers |-> headers, chunks |-> body]

Responses ==
    {BodyResponse(st, h, b) : st \in Statuses, h \in HeaderLists, b \in Bodies}
    \cup {StreamResponse(st, h, c) :
            st \in Statuses, h \in HeaderLists, c \in SeqsUpTo(ChunkBodies, MaxChunks)}

response_start(response) ==
    [type |-> "http.response.start", status |-> response.status,
     headers |-> response.headers]

response_body(body, more_body) ==
    [type |-> "http.response.body", body |-> body, more_body |-> more_body]

\* render_messages without the closing message of a streamed response that
\* has no chunk
render_messages_no_closing(response) ==
    IF response.kind = "BodyResponse"
    THEN <<response_start(response), response_body(response.body, FALSE)>>
    ELSE <<response_start(response)>>
         \o [i \in 1..Len(response.chunks) |-> response_body(response.chunks[i], TRUE)]
         \o (IF response.chunks = <<>> THEN <<>> ELSE <<response_body("", FALSE)>>)

\* Response.render_messages(), as the list of the messages it yields
render_messages(response) ==
    IF response.kind = "BodyResponse"
    THEN <<response_start(response), response_body(response.body, FALSE)>>
    ELSE <<response_start(response)>>
         \o [i \in 1..Len(response.chunks) |-> response_body(response.chunks[i], TRUE)]
         \o <<response_body("", FALSE)>>

\* The routes of the application: paths with a route, none of which has a
\* handler for any method
RoutePaths == {"/", "/test"}

Paths == {"/", "/test", "/invalid"}

Methods == {"GET", "POST"}

\* The response the dispatcher sends for an http scope
dispatch_response(scope) ==
    IF scope.path \notin RoutePaths
    THEN BodyResponse(404, <<>>, "Not Found")
    ELSE BodyResponse(405, <<>>, "Method Not Allowed")

\* http_send_response_result forwarding the messages from the second one on
http_send_response_result_skipping(messages) ==
    [outcome |-> "ok", sent |-> Tail(messages)]

\* The loop of HttpConnection.send_response over the rendered messages when
\* every raw send completes: the outcome and the messages the raw send was
\* awaited with.
http_send_response_result(messages) ==
    LET bad == {i \in DOMAIN messages : connection_send(http_protocol, messages[i]) # "ok"}
    IN  IF bad = {}
        THEN [outcome |-> "ok", sent |-> messages]
        ELSE LET first == CHOOSE i \in bad : \A j \in bad : i <= j
             IN  [outcome |-> "ProtocolMismatch", sent |-> SubSeq(messages, 1, first - 1)]

\* The ways HttpConnection.send_response(response) can end: every raw send
\* completes, or the raw send of the k-th forwarded message raises (or the
\* task is cancelled while awaiting it).
http_send_response_outcomes(response) ==
    LET r == http_send_response_result(render_messages(response))
    IN  {r} \cup {[outcome |-> "ChannelError", sent |-> SubSeq(r.sent, 1, k)] :
                    k \in 1..Len(r.sent)}

\* A call of HttpConnection.send_response
http_send_response ==
    /\ http_pc = "idle"
    /\ \E response \in Responses :
         \E r \in http_send_response_outcomes(response) :
            /\ http_sent' = r.sent
            /\ http_last' = [op |-> "send_response", protocol |-> http_protocol,
                             outcome |-> r.outcome, msg |-> response,
                             result |-> NoResult]
    /\ http_received' = <<>>
    /\ http_yielded' = <<>>
    /\ http_body' = ""
    /\ UNCHANGED http_pc
    /\ UNCHANGED websocket_vars

\* The application called with an http scope: no route has a handler, the
\* dispatcher sends its fixed response through HttpConnection.send_response.
xiao_call ==
    /\ http_pc = "idle"
    /\ \E path \in Paths, method \in Methods :
         LET scope == [type |-> "http", method |-> method, path |-> path]
         IN  \E r \in http_send_response_outcomes(dispatch_response(scope)) :
                /\ http_sent' = r.sent
                /\ http_last' = [op |-> "xiao_call", protocol |-> http_protocol,
                                 outcome |-> r.outcome, msg |-> scope,
                                 result |-> NoResult]
    /\ http_received' = <<>>
    /\ http_yielded' = <<>>
    /\ http_body' = ""
    /\ UNCHANGED http_pc
    /\ UNCHANGED websocket_vars

NextHttp ==
    \/ conn_receive
    \/ conn_send
    \/ http_receive_request
    \/ get_requests_body
    \/ stream_requests
    \/ http_send_response
    \/ xiao_call

SpecHttp == Init /\ [][NextHttp]_vars

----------------------------------------------------------------------------
\* Properties of Connection.receive / Connection.send and of the
\* request/response-style (http) connection

\* The wire types whose top-level segment is p
TypesOfProtocol(p) ==
    {p} \cup {p \o "." \o s \o e : s \in SubTypes \cup HttpSubTypes, e \in Trailers}

\* C11: on a connection of either protocol, receive of a raw message, or send
\* of a message, whose type's top-level segment differs from the connection's
\* protocol fails with ProtocolMismatch; the message is not returned to the
\* caller of receive and the raw send primitive is not invoked by send.
C11_ProtocolIsolation ==
    (/\ http_last.op \in {"receive", "send", "receive_request"}
     /\ http_last.msg # NoResult
     /\ http_last.msg.type \notin TypesOfProtocol(http_last.protocol))
    => /\ http_last.outcome = "ProtocolMismatch"
       /\ http_last.result = NoResult
       /\ http_sent = <<>>

C11_Witness ==
    /\ http_last.op = "send"
    /\ http_last.protocol = "http"
    /\ http_last.msg = [type |-> "websocket.send"]
    /\ http_last.outcome = "ProtocolMismatch"
    /\ http_sent = <<>>

\* The raw messages form n >= 1 "http.request" chunks, more_body true for
\* the first n-1 and false for the last
IsChunkedRequest(messages) ==
    /\ Len(messages) >= 1
    /\ \A i \in DOMAIN messages :
         /\ messages[i].type = "http.request"
         /\ "more_body" \in DOMAIN messages[i]
         /\ messages[i].more_body = (i < Len(messages))

RECURSIVE ConcatBodies(_)
\* The bodies of the messages, concatenated in order
ConcatBodies(messages) ==
    IF messages = <<>> THEN ""
    ELSE messages[1].body \o ConcatBodies(Tail(messages))

C13_OnlyRequestSubType ==
    (/\ http_last.op = "receive_request"
     /\ http_last.msg # NoResult
     /\ http_last.msg.type \in TypesOfProtocol("http"))
    => IF http_last.msg.type = "http.request"
       THEN /\ http_last.outcome = "ok"
            /\ http_last.result =
                 [protocol |-> "http", type |-> "request",
                  data |-> [k \in DOMAIN http_last.msg \ {"type"} |-> http_last.msg[k]]]
       ELSE http_last.outcome = "TypeMismatch"

\* C14: the messages of a whole-body response are exactly the start message
\* and one body message with more_body false; those of a streamed response
\* are the start message, one body message with more_body true per chunk in
\* order, and a last message with empty body and more_body false.
C14_RenderedMessages ==
    (http_last.op = "send_response" /\ http_last.outcome = "ok")
    => LET response == http_last.msg
           start == [type |-> "http.response.start", status |-> response.status,
                     headers |-> response.headers]
       IN  IF response.kind = "BodyResponse"
           THEN /\ Len(http_sent) = 2
                /\ http_sent[1] = start
                /\ http_sent[2] = [type |-> "http.response.body",
                                   body |-> response.body, more_body |-> FALSE]
           ELSE /\ Len(http_sent) = Len(response.chunks) + 2
                /\ http_sent[1] = start
                /\ \A i \in DOMAIN response.chunks :
                     http_sent[i + 1] = [type |-> "http.response.body",
                                         body |-> response.chunks[i], more_body |-> TRUE]
                /\ http_sent[Len(http_sent)] = [type |-> "http.response.body",
                                                body |-> "", more_body |-> FALSE]

C14_Witness ==
    /\ http_last.op = "send_response"
    /\ http_last.outcome = "ok"
    /\ http_last.msg.kind = "StreamResponse"
    /\ http_last.msg.chunks = <<>>
    /\ Len(http_sent) = 2

\* C15: when the application is called with an http scope whose path matches
\* no route, the messages forwarded to the raw send are exactly the start
\* message with status 404 and no header, then the body message b"Not Found"
\* with more_body false.
C15_NotFoundMessages ==
    (/\ http_last.op = "xiao_call"
     /\ http_last.msg.path \notin {"/", "/test"}
     /\ http_last.outcome = "ok")
    => http_sent = << [type |-> "http.response.start", status |-> 404, headers |-> <<>>],
                      [type |-> "http.response.body", body |-> "Not Found",
                       more_body |-> FALSE] >>

C15_Witness ==
    /\ http_last.op = "xiao_call"
    /\ http_last.msg.path = "/invalid"
    /\ http_last.outcome = "ok"
    /\ Len(http_sent) = 2

====
